---- MODULE Spec2Model ----
(***************************************************************************)
(* SerialDispatch (serialdispatch.py): the wire codec of publish() and     *)
(* run(), the subscriber registry and the topic store, and the ingest loop *)
(* that decodes one frame at a time and dispatches it to the callbacks.    *)
(*                                                                         *)
(* Python integers are unbounded, and the 32-bit formats add 2^32 to a     *)
(* value.  A published or decoded number is therefore kept as two limbs,   *)
(* [hi, lo] with value hi * 65536 + lo and lo in 0..65535 (hi is negative  *)
(* for a negative number).  The elements of a message list are plain       *)
(* integers, as in the code (msg is a list of ints, not a bytearray).      *)
(* A string is the sequence of its code points.                            *)
(***************************************************************************)
EXTENDS Integers, Sequences, FiniteSets, TLC

VARIABLES
    subscribers,    \* SerialDispatch.subscribers: topic -> list of callbacks
    topical_data,   \* SerialDispatch.topical_data: topic -> decoded value
    run_thread,     \* self.run_thread
    tx,             \* Frame: messages handed to push_tx_message
    rx,             \* Frame: received messages not yet pulled
    pc,             \* position of the thread executing run()
    loc,            \* locals of run(): msg, topic, dim, length, format_specifiers, keys, key, element
    iter,           \* the list iterator of line 292: the list it walks and its index
    calls,          \* callbacks invoked for the frame being processed, with what get_data gave
    cur,            \* the frame being processed: its bytes and what was published to make it
    fault,          \* the exception that ended run() and where it was raised
    caller          \* the caller threads: the call each is in, its position, its outcome

vars == <<subscribers, topical_data, run_thread, tx, rx, pc, loc, iter, calls, cur, fault, caller>>

(***************************************************************************)
(* Numbers                                                                 *)
(***************************************************************************)
Limb == 65536

Norm(h, l) == [hi |-> h + (l \div Limb), lo |-> l % Limb]

\* a number given as a small integer
Num(n) == Norm(0, n)

\* the plain integer of a number that fits one
Plain(x) == x.hi * Limb + x.lo

\* x > 0
IsPos(x) == x.hi > 0 \/ (x.hi = 0 /\ x.lo > 0)

\* x + k * 65536
AddLimbs(x, k) == [hi |-> x.hi + k, lo |-> x.lo]

(***************************************************************************)
(* Format specifiers (line 15)                                             *)
(***************************************************************************)
format_specifiers ==
    [c \in 0..8 |-> CASE c = 0 -> "NONE"  [] c = 1 -> "STRING" [] c = 2 -> "U8"
                      [] c = 3 -> "S8"    [] c = 4 -> "U16"    [] c = 5 -> "S16"
                      [] c = 6 -> "U32"   [] c = 7 -> "S32"    [] c = 8 -> "FLOAT"]

\* the reversed dictionary that publish builds (lines 81-84)
FsCode(name) == CHOOSE c \in DOMAIN format_specifiers : format_specifiers[c] = name

RECURSIVE Flatten(_)
Flatten(ss) == IF ss = <<>> THEN <<>> ELSE Head(ss) \o Flatten(Tail(ss))

\* bytearray(s, 'utf-8') of a string of code points below 65536
Utf8Char(c) ==
    IF c < 128 THEN <<c>>
    ELSE IF c < 2048 THEN <<192 + (c \div 64), 128 + (c % 64)>>
    ELSE <<224 + (c \div 4096), 128 + ((c \div 64) % 64), 128 + (c % 64)>>

Utf8(s) == Flatten([i \in 1..Len(s) |-> Utf8Char(s[i])])

(***************************************************************************)
(* publish (lines 70-143).  data is a list of rows; a row is               *)
(* [text |-> TRUE, str |-> s, nums |-> <<>>] for the one-string row ['s']  *)
(* and [text |-> FALSE, str |-> <<>>, nums |-> <<x1, ...>>] for numbers.   *)
(***************************************************************************)
TextRow(s) == [text |-> TRUE, str |-> s, nums |-> <<>>]
NumRow(ns) == [text |-> FALSE, str |-> <<>>, nums |-> ns]

RowLen(row) == IF row.text THEN 1 ELSE Len(row.nums)

\* lines 86-89
PublishLength(data, fmt) ==
    IF fmt = <<"STRING">> THEN Len(data[1].str) ELSE RowLen(data[1])

\* lines 95-102
EncodeHeader(topic, dim, length) ==
    Utf8(topic) \o <<0>> \o <<dim, length % 256, (length % 65536) \div 256>>

\* lines 104-109: two specifiers to a byte, the even one in the low nibble
RECURSIVE PackSpecifiers(_)
PackSpecifiers(fmt) ==
    IF fmt = <<>> THEN <<>>
    ELSE IF Len(fmt) = 1 THEN <<FsCode(fmt[1]) % 16>>
    ELSE <<(FsCode(fmt[1]) % 16) + (FsCode(fmt[2]) % 16) * 16>>
         \o PackSpecifiers(Tail(Tail(fmt)))

\* line 118: x if x > 0 else x + 256, appended to msg as it is
Unsigned8(x) == IF IsPos(x) THEN Plain(x) ELSE Plain(x) + 256

\* lines 122-126
Unsigned16(x) == IF IsPos(x) THEN x ELSE AddLimbs(x, 1)
Bytes16(x) == <<x.lo % 256, x.lo \div 256>>

\* lines 129-135
Unsigned32(x) == IF IsPos(x) THEN x ELSE AddLimbs(x, Limb)
Bytes32(x) == <<x.lo % 256, x.lo \div 256, x.hi % 256, (x.hi % Limb) \div 256>>

\* lines 111-138, one specifier e with its row data[i]
EncodeRow(e, data, i) ==
    CASE e \in {"NONE", "STRING"} -> Utf8(data[1].str)
      [] e \in {"U8", "S8"} ->
            [j \in 1..Len(data[i].nums) |-> Unsigned8(data[i].nums[j])]
      [] e \in {"U16", "S16"} ->
            Flatten([j \in 1..Len(data[i].nums) |-> Bytes16(Unsigned16(data[i].nums[j]))])
      [] e \in {"U32", "S32"} ->
            Flatten([j \in 1..Len(data[i].nums) |-> Bytes32(Unsigned32(data[i].nums[j]))])
      [] OTHER -> <<>>

\* the message publish builds, pushes and returns
Encode(topic, data, fmt) ==
    EncodeHeader(topic, Len(data), PublishLength(data, fmt))
    \o PackSpecifiers(fmt)
    \o Flatten([i \in 1..Len(fmt) |-> EncodeRow(fmt[i], data, i)])

(***************************************************************************)
(* run: the header of a received message (lines 151-179)                   *)
(***************************************************************************)
\* lines 152-156: the index (from 0) of the first 0, and 0 when there is none
ZeroIndex(msg) ==
    IF \E i \in 1..Len(msg) : msg[i] = 0
    THEN (CHOOSE i \in 1..Len(msg) : msg[i] = 0 /\ \A j \in 1..(i - 1) : msg[j] # 0) - 1
    ELSE 0

\* msg[n:]
Drop(msg, n) == IF n >= Len(msg) THEN <<>> ELSE SubSeq(msg, n + 1, Len(msg))
\* msg[0:n]
Take(msg, n) == IF n >= Len(msg) THEN msg ELSE SubSeq(msg, 1, n)

\* lines 167-179: pops specifier bytes until i = dim; ok is FALSE when pop(0)
\* finds msg empty (IndexError) or a nibble is no key of the table (KeyError)
RECURSIVE UnpackSpecifiers(_, _, _, _)
UnpackSpecifiers(msg, dim, i, acc) ==
    IF msg = <<>> THEN [ok |-> FALSE, err |-> "IndexError", fmt |-> acc, msg |-> msg]
    ELSE LET fs0 == Head(msg)
             lo == fs0 % 16
             hi == (fs0 % 256) \div 16
         IN IF lo \notin DOMAIN format_specifiers
            THEN [ok |-> FALSE, err |-> "KeyError", fmt |-> acc, msg |-> Tail(msg)]
            ELSE IF i + 1 = dim
            THEN [ok |-> TRUE, err |-> "none",
                  fmt |-> Append(acc, format_specifiers[lo]), msg |-> Tail(msg)]
            ELSE IF hi \notin DOMAIN format_specifiers
            THEN [ok |-> FALSE, err |-> "KeyError", fmt |-> acc, msg |-> Tail(msg)]
            ELSE IF i + 2 = dim
            THEN [ok |-> TRUE, err |-> "none",
                  fmt |-> acc \o <<format_specifiers[lo], format_specifiers[hi]>>,
                  msg |-> Tail(msg)]
            ELSE UnpackSpecifiers(Tail(msg), dim, i + 2,
                                  acc \o <<format_specifiers[lo], format_specifiers[hi]>>)

\* lines 151-179 as a whole
ParseHeader(msg) ==
    LET z    == ZeroIndex(msg)
        rest == Drop(msg, z + 1)
    IN IF Len(rest) < 3
       THEN [ok |-> FALSE, err |-> "IndexError", topic |-> Take(msg, z),
             dim |-> 0, length |-> 0, fmt |-> <<>>, msg |-> <<>>]
       ELSE LET u == UnpackSpecifiers(Drop(rest, 3), rest[1], 0, <<>>)
            IN [ok |-> u.ok, err |-> u.err, topic |-> Take(msg, z),
                dim |-> rest[1], length |-> rest[2] + rest[3] * 256,
                fmt |-> u.fmt, msg |-> u.msg]

(***************************************************************************)
(* Dictionaries (topical_data, subscribers) as functions on their key set  *)
(***************************************************************************)
EmptyDict == [k \in {} |-> 0]
DictSet(d, k, v) == [x \in DOMAIN d \cup {k} |-> IF x = k THEN v ELSE d[x]]
DictPop(d, k) == [x \in DOMAIN d \ {k} |-> d[x]]

\* a stored value: the string of a STRING frame, or the list of rows
TextValue(s) == [text |-> TRUE, str |-> s, rows |-> <<>>]
RowsValue(rs) == [text |-> FALSE, str |-> <<>>, rows |-> rs]

(***************************************************************************)
(* run: the rows of a received message (lines 181-281)                     *)
(***************************************************************************)
\* the loops of lines 214-217 and 247-252: w bytes to a number, low byte
\* first; ok is FALSE when pop(0) finds row8 empty within a number
RECURSIVE Combine(_, _)
Combine(row8, w) ==
    IF row8 = <<>> THEN [ok |-> TRUE, row |-> <<>>]
    ELSE IF Len(row8) < w THEN [ok |-> FALSE, row |-> <<>>]
    ELSE LET n == IF w = 2
                  THEN Norm(0, row8[1] + row8[2] * 256)
                  ELSE Norm(row8[3] + row8[4] * 256, row8[1] + row8[2] * 256)
             r == Combine(Drop(row8, w), w)
         IN [ok |-> r.ok, row |-> <<n>> \o r.row]

\* line 202
Sign8(e) == IF e > 127 THEN e - 256 ELSE e
\* line 235
Sign16(e) == IF Plain(e) > 32767 THEN AddLimbs(e, -1) ELSE e
\* line 272: e > 2147483648
Sign32(e) == IF e.hi > 32768 \/ (e.hi = 32768 /\ e.lo > 0) THEN AddLimbs(e, -Limb) ELSE e

\* the width in bytes of a numeric specifier
Width(element) ==
    CASE element \in {"U8", "S8"} -> 1
      [] element \in {"U16", "S16"} -> 2
      [] OTHER -> 4

\* the row a numeric specifier takes from the front of msg
DecodeRow(element, msg, length) ==
    LET row8 == Take(msg, length * Width(element))
    IN CASE element = "U8" -> [ok |-> TRUE, row |-> [j \in 1..Len(row8) |-> Num(row8[j])]]
         [] element = "S8" -> [ok |-> TRUE, row |-> [j \in 1..Len(row8) |-> Num(Sign8(row8[j]))]]
         [] element = "U16" -> Combine(row8, 2)
         [] element = "S16" ->
                LET c == Combine(row8, 2)
                IN [ok |-> c.ok, row |-> [j \in 1..Len(c.row) |-> Sign16(c.row[j])]]
         [] element = "U32" -> Combine(row8, 4)
         [] element = "S32" ->
                LET c == Combine(row8, 4)
                IN [ok |-> c.ok, row |-> [j \in 1..Len(c.row) |-> Sign32(c.row[j])]]

\* one pass of the loop of line 181: the store and msg after it, or the
\* exception that leaves it (with the store as it is at the raise)
DecodeElement(element, store, topic, msg, length) ==
    IF element = "STRING"
    THEN [err |-> "none", store |-> DictSet(store, topic, TextValue(msg)), msg |-> msg]
    ELSE IF element \in {"U8", "S8", "U16", "S16", "U32", "S32"}
    THEN LET s1 == IF store = EmptyDict THEN DictSet(store, topic, RowsValue(<<>>)) ELSE store
             r  == DecodeRow(element, msg, length)
         IN IF ~r.ok THEN [err |-> "IndexError", store |-> s1, msg |-> msg]
            ELSE IF topic \notin DOMAIN s1 THEN [err |-> "KeyError", store |-> s1, msg |-> msg]
            ELSE IF s1[topic].text THEN [err |-> "AttributeError", store |-> s1, msg |-> msg]
            ELSE [err |-> "none",
                  store |-> DictSet(s1, topic, RowsValue(Append(s1[topic].rows, r.row))),
                  msg |-> Drop(msg, length * Width(element))]
    ELSE \* FLOAT, NONE: logged, nothing stored, nothing consumed
         [err |-> "none", store |-> store, msg |-> msg]

\* the loop of line 181 over all the specifiers of a message
RECURSIVE DecodeRows(_, _, _, _, _)
DecodeRows(fmt, store, topic, msg, length) ==
    IF fmt = <<>> THEN [err |-> "none", store |-> store]
    ELSE LET d == DecodeElement(Head(fmt), store, topic, msg, length)
         IN IF d.err # "none" THEN [err |-> d.err, store |-> d.store]
            ELSE DecodeRows(Tail(fmt), d.store, topic, d.msg, length)

\* lines 151-281: the store after a message is decoded into it
DecodeFrame(bytes, store) ==
    LET h == ParseHeader(bytes)
    IN IF ~h.ok THEN [err |-> h.err, store |-> store]
       ELSE DecodeRows(h.fmt, store, h.topic, h.msg, h.length)

(***************************************************************************)
(* State                                                                   *)
(***************************************************************************)
\* what a frame was made from: the arguments of the publish call, or nothing
\* for a frame that came from the peer
NoSource == [pub |-> FALSE, topic |-> <<>>, data |-> <<>>, fmt |-> <<>>]
Published(topic, data, fmt) == [pub |-> TRUE, topic |-> topic, data |-> data, fmt |-> fmt]

NoFrame == [bytes |-> <<>>, src |-> NoSource]

NoLocals ==
    [msg |-> <<>>, topic |-> <<>>, dim |-> 0, length |-> 0, formats |-> <<>>,
     rest |-> <<>>, keys |-> {}, key |-> <<>>, element |-> "none"]

NoIter == [list |-> <<>>, idx |-> 0, live |-> FALSE]

Callers == {"t1", "t2"}

Idle == [op |-> "idle", at |-> 0, topic |-> <<>>, cb |-> "none", res |-> "none",
         entry |-> EmptyDict]
\* a caller thread that makes no call in this specification
Off == [Idle EXCEPT !.op = "off"]

\* get_data (line 68): the value, or KeyError
get_data(store, topic) ==
    IF topic \in DOMAIN store
    THEN [found |-> TRUE, value |-> store[topic]]
    ELSE [found |-> FALSE, value |-> RowsValue(<<>>)]

\* the number of callbacks registered, over all topics
RECURSIVE Registered(_)
Registered(subs) ==
    IF DOMAIN subs = {} THEN 0
    ELSE LET k == CHOOSE x \in DOMAIN subs : TRUE
         IN Len(subs[k]) + Registered(DictPop(subs, k))

(***************************************************************************)
(* Bounds                                                                  *)
(***************************************************************************)
\* messages under way: sent and not delivered, received and not pulled, or
\* pulled and still being processed
MaxQueue == 1
\* callbacks registered over all topics when a subscribe call is made
MaxSubs == 2
\* messages under way where the order of arrival is looked at
MaxBacklog == 3
\* callbacks registered where only the registry is looked at
MaxRegistry == 3

(***************************************************************************)
(* The registry: subscribe (lines 34-44) and unsubscribe (lines 46-57),    *)
(* one line of the method to a step.  The iterator of line 292 holds the   *)
(* list object of its topic: append and remove change the list it walks,   *)
(* an assignment of a new list or a pop of the topic leaves it the old one.*)
(***************************************************************************)
\* list.remove(x): the list without the first x
RECURSIVE ListRemove(_, _)
ListRemove(list, x) ==
    IF list = <<>> THEN <<>>
    ELSE IF Head(list) = x THEN Tail(list)
    ELSE <<Head(list)>> \o ListRemove(Tail(list), x)

InList(list, x) == \E i \in 1..Len(list) : list[i] = x

Walking(topic) == pc \in {"next", "call"} /\ iter.live /\ loc.key = topic

\* the iterator after the list of topic was changed in place to list
IterMutated(topic, list) == IF Walking(topic) THEN [iter EXCEPT !.list = list] ELSE iter
\* the iterator after the key topic was bound to another list, or popped
IterDetached(topic) == IF Walking(topic) THEN [iter EXCEPT !.live = FALSE] ELSE iter

\* the call returns (res "ok") or raises res; at = 0 is a call that has ended
Finish(t, res) == caller' = [caller EXCEPT ![t].at = 0, ![t].res = res]
Goto(t, line) == caller' = [caller EXCEPT ![t].at = line]

\* subscribe is called, fewer than n callbacks being registered
CallSubscribeUpTo(t, topic, cb, n) ==
    /\ caller[t].op = "idle"
    /\ Registered(subscribers) < n
    /\ caller' = [caller EXCEPT ![t] = [op |-> "subscribe", at |-> 41, topic |-> topic,
                                        cb |-> cb, res |-> "none", entry |-> subscribers]]
    /\ UNCHANGED <<subscribers, topical_data, run_thread, tx, rx, pc, loc, iter, calls, cur, fault>>

CallSubscribe(t, topic, cb) == CallSubscribeUpTo(t, topic, cb, MaxSubs)

\* line 41
SubscribeTest(t) ==
    /\ caller[t].op = "subscribe" /\ caller[t].at = 41
    /\ IF caller[t].topic \notin DOMAIN subscribers THEN Goto(t, 42) ELSE Goto(t, 44)
    /\ UNCHANGED <<subscribers, topical_data, run_thread, tx, rx, pc, loc, iter, calls, cur, fault>>

\* line 42
SubscribeNew(t) ==
    /\ caller[t].op = "subscribe" /\ caller[t].at = 42
    /\ subscribers' = DictSet(subscribers, caller[t].topic, <<caller[t].cb>>)
    /\ iter' = IterDetached(caller[t].topic)
    /\ Finish(t, "ok")
    /\ UNCHANGED <<topical_data, run_thread, tx, rx, pc, loc, calls, cur, fault>>

\* line 44
SubscribeAppend(t) ==
    /\ caller[t].op = "subscribe" /\ caller[t].at = 44
    /\ IF caller[t].topic \notin DOMAIN subscribers
       THEN Finish(t, "KeyError") /\ UNCHANGED <<subscribers, iter>>
       ELSE LET list == Append(subscribers[caller[t].topic], caller[t].cb)
            IN /\ subscribers' = DictSet(subscribers, caller[t].topic, list)
               /\ iter' = IterMutated(caller[t].topic, list)
               /\ Finish(t, "ok")
    /\ UNCHANGED <<topical_data, run_thread, tx, rx, pc, loc, calls, cur, fault>>

CallUnsubscribe(t, topic, cb) ==
    /\ caller[t].op = "idle"
    /\ caller' = [caller EXCEPT ![t] = [op |-> "unsubscribe", at |-> 53, topic |-> topic,
                                        cb |-> cb, res |-> "none", entry |-> subscribers]]
    /\ UNCHANGED <<subscribers, topical_data, run_thread, tx, rx, pc, loc, iter, calls, cur, fault>>

\* line 53
UnsubscribeTest(t) ==
    /\ caller[t].op = "unsubscribe" /\ caller[t].at = 53
    /\ IF caller[t].topic \notin DOMAIN subscribers THEN Finish(t, "KeyError")
       ELSE IF subscribers[caller[t].topic] # <<>> THEN Goto(t, 54)
       ELSE Goto(t, 56)
    /\ UNCHANGED <<subscribers, topical_data, run_thread, tx, rx, pc, loc, iter, calls, cur, fault>>

\* (mutant) line 54 as list.discard would be: a callback that is not in the
\* list is passed over
UnsubscribeRemoveQuiet(t) ==
    /\ caller[t].op = "unsubscribe" /\ caller[t].at = 54
    /\ IF caller[t].topic \notin DOMAIN subscribers
       THEN Finish(t, "KeyError") /\ UNCHANGED <<subscribers, iter>>
       ELSE LET list == ListRemove(subscribers[caller[t].topic], caller[t].cb)
            IN /\ subscribers' = DictSet(subscribers, caller[t].topic, list)
               /\ iter' = IterMutated(caller[t].topic, list)
               /\ Goto(t, 56)
    /\ UNCHANGED <<topical_data, run_thread, tx, rx, pc, loc, calls, cur, fault>>

\* line 54
UnsubscribeRemove(t) ==
    /\ caller[t].op = "unsubscribe" /\ caller[t].at = 54
    /\ IF caller[t].topic \notin DOMAIN subscribers
       THEN Finish(t, "KeyError") /\ UNCHANGED <<subscribers, iter>>
       ELSE IF ~InList(subscribers[caller[t].topic], caller[t].cb)
       THEN Finish(t, "ValueError") /\ UNCHANGED <<subscribers, iter>>
       ELSE LET list == ListRemove(subscribers[caller[t].topic], caller[t].cb)
            IN /\ subscribers' = DictSet(subscribers, caller[t].topic, list)
               /\ iter' = IterMutated(caller[t].topic, list)
               /\ Goto(t, 56)
    /\ UNCHANGED <<topical_data, run_thread, tx, rx, pc, loc, calls, cur, fault>>

\* line 56
UnsubscribeLen(t) ==
    /\ caller[t].op = "unsubscribe" /\ caller[t].at = 56
    /\ IF caller[t].topic \notin DOMAIN subscribers THEN Finish(t, "KeyError")
       ELSE IF Len(subscribers[caller[t].topic]) = 0 THEN Goto(t, 57)
       ELSE Finish(t, "ok")
    /\ UNCHANGED <<subscribers, topical_data, run_thread, tx, rx, pc, loc, iter, calls, cur, fault>>

\* (mutant) line 57 left out: the key stays, bound to the empty list
UnsubscribeKeepsKey(t) ==
    /\ caller[t].op = "unsubscribe" /\ caller[t].at = 57
    /\ Finish(t, "ok")
    /\ UNCHANGED <<subscribers, topical_data, run_thread, tx, rx, pc, loc, iter, calls, cur, fault>>

\* line 57
UnsubscribePop(t) ==
    /\ caller[t].op = "unsubscribe" /\ caller[t].at = 57
    /\ IF caller[t].topic \notin DOMAIN subscribers
       THEN Finish(t, "KeyError") /\ UNCHANGED <<subscribers, iter>>
       ELSE /\ subscribers' = DictPop(subscribers, caller[t].topic)
            /\ iter' = IterDetached(caller[t].topic)
            /\ Finish(t, "ok")
    /\ UNCHANGED <<topical_data, run_thread, tx, rx, pc, loc, calls, cur, fault>>

\* get_data called by a caller thread (line 68)
CallGetData(t, topic) ==
    /\ caller[t].op = "idle"
    /\ caller' = [caller EXCEPT ![t] =
                    [op |-> "get_data", at |-> 0, topic |-> topic, cb |-> "none",
                     res |-> IF get_data(topical_data, topic).found THEN "ok" ELSE "KeyError",
                     entry |-> subscribers]]
    /\ UNCHANGED <<subscribers, topical_data, run_thread, tx, rx, pc, loc, iter, calls, cur, fault>>

\* the call has returned or raised: the thread is free for its next call
Return(t) ==
    /\ caller[t].op \in {"subscribe", "unsubscribe", "get_data"} /\ caller[t].at = 0
    /\ caller' = [caller EXCEPT ![t] = Idle]
    /\ UNCHANGED <<subscribers, topical_data, run_thread, tx, rx, pc, loc, iter, calls, cur, fault>>

(***************************************************************************)
(* close (lines 31-32)                                                     *)
(***************************************************************************)
close ==
    /\ run_thread
    /\ run_thread' = FALSE
    /\ UNCHANGED <<subscribers, topical_data, tx, rx, pc, loc, iter, calls, cur, fault, caller>>

(***************************************************************************)
(* The transport (serialdispatch.frame.Frame): a send queue and a receive  *)
(* queue of whole messages, first in first out.  The link carries bytes:   *)
(* what it does with a list element that is no byte (256) is not decided   *)
(* here, it may carry the number, carry its low eight bits, or refuse the  *)
(* message.                                                                *)
(***************************************************************************)
AllBytes(msg) == \A i \in 1..Len(msg) : msg[i] \in 0..255

UnderWay == Len(tx) + Len(rx) + (IF cur = NoFrame THEN 0 ELSE 1)

\* publish (lines 70-143): the message is built and pushed once
publish(topic, data, fmt) ==
    /\ UnderWay < MaxQueue
    /\ tx' = Append(tx, [bytes |-> Encode(topic, data, fmt), src |-> Published(topic, data, fmt)])
    /\ UNCHANGED <<subscribers, topical_data, run_thread, rx, pc, loc, iter, calls, cur, fault, caller>>

\* the sent message comes back on the receive side (a loop-back link, or a
\* peer that echoes)
Deliver ==
    /\ tx # <<>>
    /\ tx' = Tail(tx)
    /\ \/ rx' = Append(rx, Head(tx))
       \/ /\ ~AllBytes(Head(tx).bytes)
          /\ rx' = Append(rx, [Head(tx) EXCEPT
                                 !.bytes = [i \in 1..Len(Head(tx).bytes) |-> Head(tx).bytes[i] % 256]])
       \/ /\ ~AllBytes(Head(tx).bytes)
          /\ rx' = rx
    /\ UNCHANGED <<subscribers, topical_data, run_thread, pc, loc, iter, calls, cur, fault, caller>>

\* a message arrives from the peer, fewer than n being under way
ReceiveUpTo(bytes, n) ==
    /\ UnderWay < n
    /\ rx' = Append(rx, [bytes |-> bytes, src |-> NoSource])
    /\ UNCHANGED <<subscribers, topical_data, run_thread, tx, pc, loc, iter, calls, cur, fault, caller>>

Receive(bytes) == ReceiveUpTo(bytes, MaxQueue)

(***************************************************************************)
(* run (lines 145-302)                                                     *)
(***************************************************************************)
\* an exception leaves run(): nothing catches it, the thread ends
NoFault == [err |-> "none", where |-> "none"]
Raise(err, where) == pc' = "dead" /\ fault' = [err |-> err, where |-> where]

\* line 147
LoopOuter ==
    /\ pc = "outer"
    /\ pc' = IF run_thread THEN "inner" ELSE "exit"
    /\ UNCHANGED <<subscribers, topical_data, run_thread, tx, rx, loc, iter, calls, cur, fault, caller>>

\* line 148 with no message waiting: sleep (lines 301-302), back to line 147
LoopIdle ==
    /\ pc = "inner"
    /\ rx = <<>>
    /\ pc' = "outer"
    /\ UNCHANGED <<subscribers, topical_data, run_thread, tx, rx, loc, iter, calls, cur, fault, caller>>

\* (mutant) the message that arrived last is pulled, not the oldest
PullNewest ==
    /\ pc = "inner"
    /\ rx # <<>>
    /\ rx' = SubSeq(rx, 1, Len(rx) - 1)
    /\ cur' = rx[Len(rx)]
    /\ calls' = <<>>
    /\ LET h == ParseHeader(rx[Len(rx)].bytes)
       IN /\ loc' = [NoLocals EXCEPT !.msg = h.msg, !.topic = h.topic, !.dim = h.dim,
                                     !.length = h.length, !.formats = h.fmt, !.rest = h.fmt]
          /\ IF h.ok THEN pc' = "decode" /\ fault' = fault ELSE Raise(h.err, "header")
    /\ UNCHANGED <<subscribers, topical_data, run_thread, tx, iter, caller>>

\* lines 148-179: the next message is pulled and its header read
Pull ==
    /\ pc = "inner"
    /\ rx # <<>>
    /\ rx' = Tail(rx)
    /\ cur' = Head(rx)
    /\ calls' = <<>>
    /\ LET h == ParseHeader(Head(rx).bytes)
       IN /\ loc' = [NoLocals EXCEPT !.msg = h.msg, !.topic = h.topic, !.dim = h.dim,
                                     !.length = h.length, !.formats = h.fmt, !.rest = h.fmt]
          /\ IF h.ok THEN pc' = "decode" /\ fault' = fault ELSE Raise(h.err, "header")
    /\ UNCHANGED <<subscribers, topical_data, run_thread, tx, iter, caller>>

\* lines 181-281: one specifier of the message
Decode ==
    /\ pc = "decode"
    /\ loc.rest # <<>>
    /\ LET d == DecodeElement(Head(loc.rest), topical_data, loc.topic, loc.msg, loc.length)
       IN /\ topical_data' = d.store
          /\ loc' = [loc EXCEPT !.msg = d.msg, !.rest = Tail(loc.rest),
                                 !.element = Head(loc.rest)]
          /\ IF d.err = "none" THEN pc' = pc /\ fault' = fault ELSE Raise(d.err, "rows")
    /\ UNCHANGED <<subscribers, run_thread, tx, rx, iter, calls, cur, caller>>

\* lines 284-285: the keys of a copy of the store
Snapshot ==
    /\ pc = "decode"
    /\ loc.rest = <<>>
    /\ loc' = [loc EXCEPT !.keys = DOMAIN topical_data]
    /\ pc' = "keys"
    /\ UNCHANGED <<subscribers, topical_data, run_thread, tx, rx, iter, calls, cur, fault, caller>>

\* line 286: the next key of the copy
NextKey ==
    /\ pc = "keys"
    /\ loc.keys # {}
    /\ \E k \in loc.keys : loc' = [loc EXCEPT !.key = k, !.keys = loc.keys \ {k}]
    /\ pc' = "check"
    /\ UNCHANGED <<subscribers, topical_data, run_thread, tx, rx, iter, calls, cur, fault, caller>>

\* line 286 with no key left: the message is done, back to line 148
EndFrame ==
    /\ pc = "keys"
    /\ loc.keys = {}
    /\ pc' = "inner"
    /\ loc' = NoLocals
    /\ cur' = NoFrame
    /\ calls' = <<>>
    /\ UNCHANGED <<subscribers, topical_data, run_thread, tx, rx, iter, fault, caller>>

\* (mutant) the pop of lines 288 and 299 left out
PopKeyKeeps == topical_data' = topical_data /\ pc' = "keys" /\ fault' = fault

\* topical_data.pop(key) of lines 288 and 299
PopKey ==
    IF loc.key \in DOMAIN topical_data
    THEN topical_data' = DictPop(topical_data, loc.key) /\ pc' = "keys" /\ fault' = fault
    ELSE topical_data' = topical_data /\ Raise("KeyError", "dispatch")

\* (mutant) lines 287-288 without the pop: the value stays in the store
DiscardKeeps ==
    /\ pc = "check"
    /\ loc.key \notin DOMAIN subscribers
    /\ pc' = "keys"
    /\ UNCHANGED <<subscribers, topical_data, run_thread, tx, rx, loc, iter, calls, cur, fault, caller>>

\* lines 287-288: no subscriber, the value is dropped
Discard ==
    /\ pc = "check"
    /\ loc.key \notin DOMAIN subscribers
    /\ PopKey
    /\ UNCHANGED <<subscribers, run_thread, tx, rx, loc, iter, calls, cur, caller>>

\* (mutant) the value is dropped before the callbacks run, not after
HasSubscribersPopsFirst ==
    /\ pc = "check"
    /\ loc.key \in DOMAIN subscribers
    /\ topical_data' = DictPop(topical_data, loc.key)
    /\ pc' = "iter"
    /\ UNCHANGED <<subscribers, run_thread, tx, rx, loc, iter, calls, cur, fault, caller>>

\* line 287: the topic has subscribers
HasSubscribers ==
    /\ pc = "check"
    /\ loc.key \in DOMAIN subscribers
    /\ pc' = "iter"
    /\ UNCHANGED <<subscribers, topical_data, run_thread, tx, rx, loc, iter, calls, cur, fault, caller>>

\* line 292: self.subscribers[key] is looked up and the walk of the list begins
IterStart ==
    /\ pc = "iter"
    /\ IF loc.key \in DOMAIN subscribers
       THEN /\ iter' = [list |-> subscribers[loc.key], idx |-> 0, live |-> TRUE]
            /\ pc' = "next" /\ fault' = fault
       ELSE iter' = iter /\ Raise("KeyError", "dispatch")
    /\ UNCHANGED <<subscribers, topical_data, run_thread, tx, rx, loc, calls, cur, caller>>

\* line 292: the iterator gives the element at its index, if the list has one
IterNext ==
    /\ pc = "next"
    /\ IF iter.idx < Len(iter.list)
       THEN /\ loc' = [loc EXCEPT !.element = iter.list[iter.idx + 1]]
            /\ iter' = [iter EXCEPT !.idx = iter.idx + 1]
            /\ pc' = "call"
       ELSE /\ loc' = loc
            /\ iter' = NoIter
            /\ pc' = "pop"
    /\ UNCHANGED <<subscribers, topical_data, run_thread, tx, rx, calls, cur, fault, caller>>

\* line 293: the callback runs; it reads its topic with get_data (as the
\* subscribers of lines 319-325 do) and returns
Callback ==
    /\ pc = "call"
    /\ calls' = Append(calls, [cb |-> loc.element, topic |-> loc.key,
                               got |-> get_data(topical_data, loc.key)])
    /\ pc' = "next"
    /\ UNCHANGED <<subscribers, topical_data, run_thread, tx, rx, loc, iter, cur, fault, caller>>

\* (mutant) line 299 left out: the value outlives its dispatch
ConsumeKeeps ==
    /\ pc = "pop"
    /\ pc' = "keys"
    /\ UNCHANGED <<subscribers, topical_data, run_thread, tx, rx, loc, iter, calls, cur, fault, caller>>

\* line 299: the value has been consumed
Consume ==
    /\ pc = "pop"
    /\ PopKey
    /\ UNCHANGED <<subscribers, run_thread, tx, rx, loc, iter, calls, cur, caller>>

run == LoopOuter \/ LoopIdle \/ Pull \/ Decode \/ Snapshot \/ NextKey \/ EndFrame
       \/ Discard \/ HasSubscribers \/ IterStart \/ IterNext \/ Callback \/ Consume

(***************************************************************************)
(* Construction (lines 17-29): empty class dictionaries, the thread started *)
(***************************************************************************)
InitWith(callers) ==
    /\ subscribers = EmptyDict
    /\ topical_data = EmptyDict
    /\ run_thread = TRUE
    /\ tx = <<>>
    /\ rx = <<>>
    /\ pc = "outer"
    /\ loc = NoLocals
    /\ iter = NoIter
    /\ calls = <<>>
    /\ cur = NoFrame
    /\ fault = NoFault
    /\ caller = [t \in Callers |-> IF t \in callers THEN Idle ELSE Off]

(***************************************************************************)
(* Callers                                                                 *)
(***************************************************************************)
\* a caller thread goes on with the call it is in
CallerStep(t) ==
    \/ SubscribeTest(t) \/ SubscribeNew(t) \/ SubscribeAppend(t)
    \/ UnsubscribeTest(t) \/ UnsubscribeRemove(t) \/ UnsubscribeLen(t) \/ UnsubscribePop(t)
    \/ Return(t)

\* a caller thread makes a call on the registry or reads the store
Call(t, topics, cbs) ==
    \/ \E topic \in topics, cb \in cbs : CallSubscribe(t, topic, cb)
    \/ \E topic \in topics, cb \in cbs : CallUnsubscribe(t, topic, cb)
    \/ \E topic \in topics : CallGetData(t, topic)

TopicA == <<97>>
TopicB == <<98>>

(***************************************************************************)
(* Spec: one caller thread beside the ingest loop; well-formed messages    *)
(* for two topics arrive from the peer.                                    *)
(***************************************************************************)
MainFrames ==
    { Encode(TopicA, <<NumRow(<<Num(-2)>>)>>, <<"S16">>),
      Encode(TopicB, <<TextRow(<<104, 105>>)>>, <<"STRING">>) }

Init == InitWith({"t1"})

Next ==
    \/ \E bytes \in MainFrames : Receive(bytes)
    \/ run
    \/ Call("t1", {TopicA, TopicB}, {"cb1", "cb2"})
    \/ CallerStep("t1")

Spec == Init /\ [][Next]_vars

(***************************************************************************)
(* Properties of Spec                                                      *)
(***************************************************************************)
\* C3 (consume-once): the step that ends the dispatch of a topic's frame
\* (line 299, after the walk of the subscriber list) leaves the topic with no
\* stored value, so that get_data fails; a value for a topic appears again
\* only when the loop decodes a frame of that topic; and a get_data call fails
\* with KeyError exactly when the topic has no stored value, and changes
\* neither the store nor the registry.
C3_ConsumeOnce ==
    /\ [][(pc = "pop" /\ pc' # "pop")
            => /\ pc' = "keys"
               /\ ~get_data(topical_data', loc.key).found]_vars
    /\ [][\A T \in DOMAIN topical_data' \ DOMAIN topical_data :
            pc = "decode" /\ loc.topic = T /\ cur # NoFrame]_vars
    /\ [][\A t \in Callers :
            (caller[t].op = "idle" /\ caller'[t].op = "get_data")
            => /\ (caller'[t].res = "KeyError") <=> (caller'[t].topic \notin DOMAIN topical_data)
               /\ topical_data' = topical_data
               /\ subscribers' = subscribers]_vars

\* a subscriber was called for the frame, the dispatch is over, and a caller
\* asking for the topic's value got KeyError
C3_Witness ==
    /\ pc = "keys"
    /\ calls # <<>>
    /\ loc.key \notin DOMAIN topical_data
    /\ caller["t1"].op = "get_data" /\ caller["t1"].at = 0
    /\ caller["t1"].topic = loc.key
    /\ caller["t1"].res = "KeyError"

\* C4 (read-back during dispatch): from the lookup of the subscriber list to
\* the return of its last callback (lines 292-293) the store holds, under the
\* topic being dispatched, the value decoded from the whole frame, and every
\* callback that has run read exactly that value with get_data.
C4_ReadBackDuringDispatch ==
    /\ pc \in {"iter", "next", "call"}
        => /\ loc.key = loc.topic
           /\ loc.key \in DOMAIN topical_data
           /\ topical_data = DecodeFrame(cur.bytes, EmptyDict).store
    /\ \A i \in 1..Len(calls) :
          /\ calls[i].got.found
          /\ calls[i].got.value = DecodeFrame(cur.bytes, EmptyDict).store[calls[i].topic]

\* the second callback of a topic is running, the first has returned
C4_Witness ==
    /\ pc = "call"
    /\ Len(calls) = 1
    /\ iter.idx = 2
    /\ loc.key \in DOMAIN topical_data

\* C5 (no-subscriber discard): when the loop finds the frame's topic with no
\* subscriber (line 287), that step removes the topic's entry, no callback has
\* been invoked for the frame, and no key is left to dispatch: the store is
\* empty and the frame's processing ends.
C5_NoSubscriberDiscard ==
    [][(pc = "check" /\ loc.key \notin DOMAIN subscribers /\ pc' # "check")
        => /\ pc' = "keys"
           /\ loc.key = loc.topic
           /\ loc.topic \notin DOMAIN topical_data'
           /\ topical_data' = EmptyDict
           /\ calls' = <<>>
           /\ loc'.keys = {}]_vars

\* a frame for a topic without subscribers has been processed to its end
C5_Witness ==
    /\ pc = "keys"
    /\ loc.keys = {}
    /\ cur # NoFrame
    /\ subscribers = EmptyDict
    /\ calls = <<>>
    /\ topical_data = EmptyDict

\* C9 (dispatch is one critical section): the ingest loop never faults
\* between its test of the topic's subscribers and the deletion of the value.
C9_DispatchNeverFaults == fault.where # "dispatch"

\* the callback is not registered under the topic in registry reg
NotRegistered(reg, topic, cb) == topic \notin DOMAIN reg \/ ~InList(reg[topic], cb)

\* C10 (unsubscribe error outcome): an unsubscribe call made when the topic has
\* no callback list, or when the callback is not in the topic's list, ends
\* with an exception (KeyError, ValueError) and the registry is as it was at
\* the call; no step of an unsubscribe call changes the store.
C10_UnsubscribeErrorOutcome ==
    /\ [](\A t \in Callers :
            (/\ caller[t].op = "unsubscribe" /\ caller[t].at = 0
             /\ NotRegistered(caller[t].entry, caller[t].topic, caller[t].cb))
            => /\ caller[t].res \in {"KeyError", "ValueError"}
               /\ subscribers = caller[t].entry)
    /\ [][\A t \in Callers :
            (caller[t].op = "unsubscribe" /\ caller'[t] # caller[t])
            => topical_data' = topical_data]_vars

\* an unsubscribe of a callback that is not in the list of a registered topic
\* has raised ValueError
C10_Witness ==
    /\ caller["t1"].op = "unsubscribe" /\ caller["t1"].at = 0
    /\ caller["t1"].topic \in DOMAIN subscribers
    /\ caller["t1"].res = "ValueError"

\* C19 (store between and during frames): while the loop is between frames
\* the store is empty, and at any time it holds at most one entry, under the
\* topic of the frame being processed.
C19_StoreHoldsOneFrame ==
    /\ (pc \in {"outer", "inner", "exit"} \/ cur = NoFrame) => topical_data = EmptyDict
    /\ Cardinality(DOMAIN topical_data) <= 1
    /\ DOMAIN topical_data \subseteq {loc.topic}

\* the callbacks of a frame of topic b have run, its value is the one entry of
\* the store
C19_Witness ==
    /\ pc = "pop"
    /\ loc.topic = TopicB
    /\ DOMAIN topical_data = {TopicB}
    /\ Len(calls) = 2

(***************************************************************************)
(* SpecCodec: publish on a loop-back link.  Each call publishes one value  *)
(* under one specifier; the values are zero, the numbers next to it and    *)
(* the ends of each width's range, and strings with and without a          *)
(* character outside ASCII.                                                *)
(***************************************************************************)
Values(fmt) ==
    CASE fmt = "U8"  -> {Num(0), Num(1), Num(255)}
      [] fmt = "S8"  -> {Num(-128), Num(-1), Num(0), Num(127)}
      [] fmt = "U16" -> {Num(0), Num(32768), Num(65535)}
      [] fmt = "S16" -> {Num(-32768), Num(-1), Num(0), Num(32767)}
      [] fmt = "U32" -> {Num(0), Norm(32768, 0), Norm(65535, 65535)}
      [] fmt = "S32" -> {Norm(-32768, 0), Num(-1), Num(0), Norm(32767, 65535)}

Strings == {<<>>, <<104>>, <<104, 105>>, <<233>>}

NumericFormats == {"U8", "S8", "U16", "S16", "U32", "S32"}

\* the arguments of publish(topic, [[v]], [fmt])
SingleInputs ==
    UNION {{Published(TopicA, <<NumRow(<<v>>)>>, <<fmt>>) : v \in Values(fmt)} :
                fmt \in NumericFormats}
    \cup {Published(TopicA, <<TextRow(str)>>, <<fmt>>) : fmt \in {"NONE", "STRING"}, str \in Strings}

InitCodec == InitWith({"t1"})

NextCodec ==
    \/ \E in \in SingleInputs : publish(in.topic, in.data, in.fmt)
    \/ Deliver
    \/ run
    \/ CallSubscribe("t1", TopicA, "cb1")
    \/ SubscribeTest("t1") \/ SubscribeNew("t1") \/ SubscribeAppend("t1") \/ Return("t1")

SpecCodec == InitCodec /\ [][NextCodec]_vars

\* the frame being processed was made by publish(topic, [[v]], [fmt])
IsSingle(src) == src.pub /\ Len(src.data) = 1 /\ Len(src.fmt) = 1

\* what get_data is to give for it: [[v]], and the string for NONE and STRING
Expected(src) ==
    IF src.data[1].text THEN TextValue(src.data[1].str)
    ELSE RowsValue(<<src.data[1].nums>>)

RoundTrips(src) ==
    /\ fault.where \notin {"header", "rows"}
    /\ (pc = "decode" /\ loc.rest = <<>>)
        => /\ loc.topic = src.topic
           /\ loc.dim = 1
           /\ src.data[1].text \/ loc.length = 1
           /\ loc.formats = src.fmt
           /\ topical_data = DictSet(EmptyDict, src.topic, Expected(src))
    /\ \A i \in 1..Len(calls) :
          calls[i].got = [found |-> TRUE, value |-> Expected(src)]

\* C1 (round trip): a frame made by publish(topic, [[v]], [fmt]), fmt not
\* FLOAT, is decoded by the loop to the same topic, dim 1, row length 1 (of
\* a row of numbers), formats [fmt] and rows [[v]] (the string v for NONE and
\* STRING), and that is what a subscriber reads with get_data during the
\* dispatch.
C1_RoundTrip ==
    (IsSingle(cur.src) /\ cur.src.fmt[1] # "FLOAT") => RoundTrips(cur.src)

\* the ends of the signed ranges, and -1
SignBoundary(fmt) ==
    CASE fmt = "S8"  -> {Num(-128), Num(-1), Num(127)}
      [] fmt = "S16" -> {Num(-32768), Num(-1), Num(32767)}
      [] fmt = "S32" -> {Norm(-32768, 0), Num(-1), Norm(32767, 65535)}
      [] OTHER -> {}

\* C2 (sign boundary): -1, the maximum and the minimum of S8, S16 and S32 come
\* back unchanged from publish then decode.
C2_SignBoundary ==
    (/\ IsSingle(cur.src)
     /\ ~cur.src.data[1].text
     /\ cur.src.data[1].nums[1] \in SignBoundary(cur.src.fmt[1]))
    => RoundTrips(cur.src)

(***************************************************************************)
(* SpecMalformed: the peer sends messages that are not frames, and one     *)
(* that is.                                                                *)
(***************************************************************************)
PeerFrames ==
    { <<97, 0, 1, 1, 0, 2, 5>>,      \* "a", dim 1, length 1, U8, [5]
      <<97, 0, 0, 1, 0, 2, 5>>,      \* dim 0
      <<97, 0, 1, 1, 0, 9, 5>>,      \* specifier nibble 9
      <<97, 0, 1>>,                  \* cut within the header
      <<97, 0, 1, 1, 0, 4, 5>>,      \* U16, cut within the number
      <<97, 1, 1, 1, 2, 7>>,         \* no 0 byte
      <<97, 98>> }                   \* no 0 byte, two bytes

InitMalformed == InitWith({"t1"})

NextMalformed ==
    \/ \E bytes \in PeerFrames : Receive(bytes)
    \/ run
    \/ \E topic \in {TopicA, <<>>} : CallSubscribe("t1", topic, "cb1")
    \/ SubscribeTest("t1") \/ SubscribeNew("t1") \/ SubscribeAppend("t1") \/ Return("t1")

SpecMalformed == InitMalformed /\ [][NextMalformed]_vars

\* C6 (decode failures do not stop ingestion): no failure to read a frame's
\* header or rows ends the ingest loop.
C6_DecodeFailureKeepsLoopRunning == fault.where \notin {"header", "rows"}

HasTerminator(bytes) == \E i \in 1..Len(bytes) : bytes[i] = 0

\* C7 (missing terminator): while a frame with no 0 byte is being processed
\* the store holds no value under any topic, no callback is invoked, and the
\* loop stays alive.
C7_MissingTerminatorRejected ==
    (cur # NoFrame /\ ~HasTerminator(cur.bytes))
    => /\ topical_data = EmptyDict
       /\ calls = <<>>
       /\ pc # "dead"

(***************************************************************************)
(* SpecConc: two caller threads make their calls on the registry at the    *)
(* same time; both return before either makes its next call.               *)
(***************************************************************************)
\* subscribe and unsubscribe run alone, from start to end
SerialSubscribe(reg, topic, cb) ==
    IF topic \notin DOMAIN reg THEN DictSet(reg, topic, <<cb>>)
    ELSE DictSet(reg, topic, Append(reg[topic], cb))

SerialUnsubscribe(reg, topic, cb) ==
    IF topic \notin DOMAIN reg \/ ~InList(reg[topic], cb) THEN reg
    ELSE IF ListRemove(reg[topic], cb) = <<>> THEN DictPop(reg, topic)
    ELSE DictSet(reg, topic, ListRemove(reg[topic], cb))

SerialCall(reg, c) ==
    IF c.op = "subscribe" THEN SerialSubscribe(reg, c.topic, c.cb)
    ELSE IF c.op = "unsubscribe" THEN SerialUnsubscribe(reg, c.topic, c.cb)
    ELSE reg

Ended(c) == c.op \in {"subscribe", "unsubscribe", "get_data"} /\ c.at = 0

\* both calls have ended: the threads go on to their next calls
ReturnBoth ==
    /\ \A t \in Callers : Ended(caller[t])
    /\ caller' = [t \in Callers |-> Idle]
    /\ UNCHANGED <<subscribers, topical_data, run_thread, tx, rx, pc, loc, iter, calls, cur, fault>>

InitConc == InitWith(Callers)

NextConc ==
    \/ \E t \in Callers : Call(t, {TopicA}, {"cb1", "cb2"})
    \/ \E t \in Callers :
          \/ SubscribeTest(t) \/ SubscribeNew(t) \/ SubscribeAppend(t)
          \/ UnsubscribeTest(t) \/ UnsubscribeRemove(t) \/ UnsubscribeLen(t) \/ UnsubscribePop(t)
    \/ ReturnBoth

SpecConc == InitConc /\ [][NextConc]_vars

\* C8 (concurrent safety of the registry): when two calls that started from
\* the same registry have both ended, the registry is what one of the two
\* serial orders of the calls makes of it.
C8_Serializable ==
    \A t, u \in Callers :
        (/\ t # u
         /\ Ended(caller[t]) /\ Ended(caller[u])
         /\ caller[t].entry = caller[u].entry)
        => subscribers \in
             { SerialCall(SerialCall(caller[t].entry, caller[t]), caller[u]),
               SerialCall(SerialCall(caller[t].entry, caller[u]), caller[t]) }


(***************************************************************************)
(* SpecRows: publish of several rows on a loop-back link.  The calls are   *)
(* publish(topic, rows, specifiers) with two or three specifiers, rows of  *)
(* one and of two elements, the least S32 number among them, and           *)
(* specifier lists that hold FLOAT (the float itself is never read by      *)
(* publish, an integer stands for it).                                     *)
(***************************************************************************)
HasFloat(fmt) == \E i \in 1..Len(fmt) : fmt[i] = "FLOAT"

RowInputs ==
    { Published(TopicA, <<NumRow(<<Num(1), Num(2)>>), NumRow(<<Num(-2), Num(3)>>),
                          NumRow(<<Num(3), Num(4)>>)>>, <<"U8", "S16", "U32">>),
      Published(TopicA, <<NumRow(<<Num(1)>>), NumRow(<<Norm(-32768, 0)>>)>>, <<"U8", "S32">>),
      Published(TopicA, <<NumRow(<<Num(0)>>), NumRow(<<Num(1)>>)>>, <<"U8", "FLOAT">>),
      Published(TopicA, <<NumRow(<<Num(1)>>)>>, <<"FLOAT">>) }

InitRows == InitWith({"t1"})

NextRows ==
    \/ \E in \in RowInputs : publish(in.topic, in.data, in.fmt)
    \/ Deliver
    \/ run
    \/ CallSubscribe("t1", TopicA, "cb1")
    \/ SubscribeTest("t1") \/ SubscribeNew("t1") \/ SubscribeAppend("t1") \/ Return("t1")

SpecRows == InitRows /\ [][NextRows]_vars

\* C11 (FLOAT on encode): no message made by a publish call whose specifier
\* list holds FLOAT is ever in the send queue.
C11_FloatPublishPushesNothing ==
    \A i \in 1..Len(tx) : ~HasFloat(tx[i].src.fmt)

\* C16 (FLOAT on decode): while a frame whose specifier list holds FLOAT is
\* processed, nothing is in the store and no callback has been invoked.
C16_FloatFrameRejectedWhole ==
    (cur # NoFrame /\ pc # "dead" /\ HasFloat(loc.formats))
        => topical_data = EmptyDict /\ calls = <<>>

\* the frame being processed was made by a publish call with two or more
\* numeric specifiers
IsMultiRow(src) ==
    /\ src.pub
    /\ Len(src.fmt) >= 2
    /\ \A i \in 1..Len(src.fmt) : src.fmt[i] \in NumericFormats

\* C17 (multi-row frames): once a frame published with two or more numeric
\* specifiers is decoded, the specifiers read are the published ones in their
\* order and the store holds the published rows, one per specifier.
C17_MultiRowRoundTrip ==
    (cur # NoFrame /\ IsMultiRow(cur.src) /\ pc = "decode" /\ loc.rest = <<>>)
        => /\ loc.dim = Len(cur.src.fmt)
           /\ loc.formats = cur.src.fmt
           /\ get_data(topical_data, cur.src.topic)
                = [found |-> TRUE,
                   value |-> RowsValue([i \in 1..Len(cur.src.data) |-> cur.src.data[i].nums])]


(***************************************************************************)
(* SpecStop: frames arrive from the peer and the owner calls close while   *)
(* the loop is at work on a frame, so that every later pull comes after    *)
(* the end of a frame that was processed with the flag already set.        *)
(***************************************************************************)
InitStop == InitWith({"t1"})

CloseDuringFrame == cur # NoFrame /\ close

NextStop ==
    \/ \E bytes \in MainFrames : Receive(bytes)
    \/ run
    \/ CloseDuringFrame
    \/ CallSubscribe("t1", TopicA, "cb1")
    \/ SubscribeTest("t1") \/ SubscribeNew("t1") \/ SubscribeAppend("t1") \/ Return("t1")

SpecStop == InitStop /\ [][NextStop]_vars

\* C12 (cooperative stop): once close has set the stop flag the loop ends
\* the frame it is at work on and pulls no further frame from the transport.
C12_NoPullAfterClose ==
    [][(cur = NoFrame /\ cur' # NoFrame) => run_thread]_vars


(***************************************************************************)
(* SpecTwo: two dispatchers, A and B, made in one process.  The two         *)
(* dictionaries are attributes of the class (lines 17-18) and no method     *)
(* assigns self.subscribers or self.topical_data, so on either instance the *)
(* names give the class's dictionaries.  The calls of thread t1 are made on *)
(* A; the frames arrive on B's transport and the loop is B's.               *)
(***************************************************************************)
Instances == {"A", "B"}

subscribers_of(i) == subscribers

InitTwo == InitWith({"t1"})

NextTwo ==
    \/ \E bytes \in MainFrames : Receive(bytes)
    \/ run
    \/ Call("t1", {TopicA}, {"cb1", "cb2"})
    \/ CallerStep("t1")

SpecTwo == InitTwo /\ [][NextTwo]_vars

\* C13 (per-instance state): subscribe and unsubscribe calls made on A leave
\* B's registry as it was made, empty, and B's loop invokes no callback that
\* was subscribed on A only.
C13_InstancesApart ==
    /\ \A i \in Instances \ {"A"} : subscribers_of(i) = EmptyDict
    /\ calls = <<>>


(***************************************************************************)
(* SpecDispatch: a thread subscribes while the loop is between frames and  *)
(* unsubscribes at any time, so that every entry of a list that is walked  *)
(* was in it when the walk began.                                          *)
(***************************************************************************)
InitDispatch == InitWith({"t1"})

SubscribeBetweenFrames(t) ==
    /\ cur = NoFrame
    /\ SubscribeNew(t) \/ SubscribeAppend(t)

NextDispatch ==
    \/ \E bytes \in MainFrames : Receive(bytes)
    \/ run
    \/ \E topic \in {TopicA, TopicB}, cb \in {"cb1", "cb2"} :
          CallSubscribe("t1", topic, cb) \/ CallUnsubscribe("t1", topic, cb)
    \/ SubscribeTest("t1") \/ SubscribeBetweenFrames("t1")
    \/ UnsubscribeTest("t1") \/ UnsubscribeRemove("t1") \/ UnsubscribeLen("t1")
    \/ UnsubscribePop("t1") \/ Return("t1")

SpecDispatch == InitDispatch /\ [][NextDispatch]_vars

\* the callbacks invoked, in the order of their invocation
CbsOf(cs) == [i \in 1..Len(cs) |-> cs[i].cb]

\* C14 (per-frame dispatch): when the walk of a frame's subscribers ends,
\* every entry of the topic's callback list has been invoked for the frame,
\* and every callback invoked was invoked for the frame's topic.
C14_EachSubscriberOnce ==
    [][(pc = "next" /\ pc' = "pop" /\ iter.live)
        => /\ \A i \in 1..Len(iter.list) : InList(CbsOf(calls), iter.list[i])
           /\ \A i \in 1..Len(calls) : calls[i].topic = loc.topic]_vars


(***************************************************************************)
(* SpecFifo: frames of one topic with different values arrive faster than  *)
(* the loop takes them, so that frames wait in the receive queue.          *)
(***************************************************************************)
FifoFrames ==
    { Encode(TopicA, <<NumRow(<<Num(5)>>)>>, <<"U8">>),
      Encode(TopicA, <<NumRow(<<Num(6)>>)>>, <<"U8">>),
      Encode(TopicA, <<NumRow(<<Num(-2)>>)>>, <<"S16">>) }

InitFifo == InitWith({"t1"})

NextFifo ==
    \/ \E bytes \in FifoFrames : ReceiveUpTo(bytes, MaxBacklog)
    \/ run
    \/ CallSubscribe("t1", TopicA, "cb1")
    \/ SubscribeTest("t1") \/ SubscribeNew("t1") \/ SubscribeAppend("t1") \/ Return("t1")

SpecFifo == InitFifo /\ [][NextFifo]_vars

\* a step of the loop that pulls a frame
Pulls == cur' # cur /\ cur' # NoFrame

\* C15 (one frame at a time, first in first out): a frame is pulled only when
\* the frame before it is done and its value deleted, and it is the oldest of
\* the frames that wait; frames that arrive queue up behind the waiting ones;
\* each invocation of a callback reads the value of the frame being processed.
C15_FifoOneAtATime ==
    /\ [][Pulls => /\ pc = "inner" /\ cur = NoFrame /\ topical_data = EmptyDict
                   /\ rx # <<>> /\ cur' = Head(rx) /\ rx' = Tail(rx)]_vars
    /\ [][(rx' # rx /\ ~Pulls) => /\ Len(rx') = Len(rx) + 1
                                  /\ SubSeq(rx', 1, Len(rx)) = rx]_vars
    /\ [][(Len(calls') = Len(calls) + 1)
            => calls'[Len(calls')].got
                 = [found |-> TRUE,
                    value |-> DecodeFrame(cur.bytes, EmptyDict).store[loc.topic]]]_vars

\* a callback has read the value of the frame being processed while two
\* other frames, the first of them with another value, wait
C15_Witness ==
    /\ Len(calls) = 1
    /\ Len(rx) = 2
    /\ rx[1].bytes # cur.bytes
    /\ calls[1].got.found
    /\ calls[1].got.value = DecodeFrame(cur.bytes, EmptyDict).store[TopicA]


(***************************************************************************)
(* SpecRegistry: one thread makes subscribe and unsubscribe calls, one     *)
(* after the other, on two topics with two callbacks; no frame arrives.    *)
(***************************************************************************)
InitRegistry == InitWith({"t1"})

NextRegistry ==
    \/ \E topic \in {TopicA, TopicB}, cb \in {"cb1", "cb2"} :
          \/ CallSubscribeUpTo("t1", topic, cb, MaxRegistry)
          \/ CallUnsubscribe("t1", topic, cb)
    \/ CallerStep("t1")

SpecRegistry == InitRegistry /\ [][NextRegistry]_vars

\* x is at index i of the list and nowhere before it
FirstAt(list, x, i) == list[i] = x /\ \A j \in 1..(i - 1) : list[j] # x

\* the list without its element at index i
RemovedAt(list, i) == SubSeq(list, 1, i - 1) \o SubSeq(list, i + 1, Len(list))

\* C18 (registry shape): when no call is under way no topic of the registry
\* is bound to the empty list; an unsubscribe call that has succeeded has
\* taken the first occurrence of the callback out of the topic's list and
\* left the others in their order, the topic is gone exactly when the list
\* became empty, and the other topics are as they were; a call that has
\* raised has left the registry as it was.
C18_RegistryShape ==
    LET c == caller["t1"] IN
    c.at = 0 =>
      /\ \A k \in DOMAIN subscribers : subscribers[k] # <<>>
      /\ (c.op = "unsubscribe" /\ c.res = "ok")
            => /\ c.topic \in DOMAIN c.entry
               /\ \E i \in 1..Len(c.entry[c.topic]) :
                     /\ FirstAt(c.entry[c.topic], c.cb, i)
                     /\ LET rest == RemovedAt(c.entry[c.topic], i)
                        IN IF rest = <<>> THEN c.topic \notin DOMAIN subscribers
                           ELSE /\ c.topic \in DOMAIN subscribers
                                /\ subscribers[c.topic] = rest
               /\ \A k \in (DOMAIN c.entry \cup DOMAIN subscribers) \ {c.topic} :
                     /\ k \in DOMAIN c.entry /\ k \in DOMAIN subscribers
                     /\ subscribers[k] = c.entry[k]
      /\ (c.op \in {"subscribe", "unsubscribe"} /\ c.res \in {"KeyError", "ValueError"})
            => subscribers = c.entry

\* an unsubscribe has taken the first of two occurrences of a callback out of
\* a list of three
C18_Witness ==
    LET c == caller["t1"] IN
    /\ c.op = "unsubscribe" /\ c.at = 0 /\ c.res = "ok"
    /\ c.topic \in DOMAIN c.entry
    /\ c.entry[c.topic] = <<"cb1", "cb2", "cb1">>
    /\ c.cb = "cb1"
    /\ subscribers[c.topic] = <<"cb2", "cb1">>


(***************************************************************************)
(* SpecReentrant: callbacks that call back into the dispatcher.  A callback *)
(* invoked at line 293 runs in the loop's thread; it may read its topic and *)
(* return, unsubscribe itself from the topic being dispatched, or subscribe *)
(* the callback "late" to it.  The caller thread subscribes cb1 and cb2      *)
(* while the loop is between frames, so during a walk the registry is       *)
(* changed by the callbacks alone.                                          *)
(***************************************************************************)

\* line 293, the callback calls self.unsubscribe(key, itself): lines 53-57
CallbackUnsubscribes ==
    /\ pc = "call"
    /\ calls' = Append(calls, [cb |-> loc.element, topic |-> loc.key,
                               got |-> get_data(topical_data, loc.key)])
    /\ IF loc.key \notin DOMAIN subscribers
       THEN Raise("KeyError", "callback") /\ UNCHANGED <<subscribers, iter>>
       ELSE IF subscribers[loc.key] # <<>> /\ ~InList(subscribers[loc.key], loc.element)
       THEN Raise("ValueError", "callback") /\ UNCHANGED <<subscribers, iter>>
       ELSE LET list == ListRemove(subscribers[loc.key], loc.element)
            IN /\ pc' = "next" /\ fault' = fault
               /\ IF list = <<>>
                  THEN /\ subscribers' = DictPop(subscribers, loc.key)
                       /\ iter' = [IterMutated(loc.key, list) EXCEPT !.live = FALSE]
                  ELSE /\ subscribers' = DictSet(subscribers, loc.key, list)
                       /\ iter' = IterMutated(loc.key, list)
    /\ UNCHANGED <<topical_data, run_thread, tx, rx, loc, cur, caller>>

\* line 293, the callback calls self.subscribe(key, late): lines 41-44
CallbackSubscribes ==
    /\ pc = "call"
    /\ Registered(subscribers) < MaxSubs
    /\ calls' = Append(calls, [cb |-> loc.element, topic |-> loc.key,
                               got |-> get_data(topical_data, loc.key)])
    /\ IF loc.key \notin DOMAIN subscribers
       THEN /\ subscribers' = DictSet(subscribers, loc.key, <<"late">>)
            /\ iter' = IterDetached(loc.key)
       ELSE LET list == Append(subscribers[loc.key], "late")
            IN /\ subscribers' = DictSet(subscribers, loc.key, list)
               /\ iter' = IterMutated(loc.key, list)
    /\ pc' = "next"
    /\ UNCHANGED <<topical_data, run_thread, tx, rx, loc, cur, fault, caller>>

InitReentrant == InitWith({"t1"})

NextReentrant ==
    \/ \E bytes \in MainFrames : Receive(bytes)
    \/ run
    \/ CallbackUnsubscribes
    \/ CallbackSubscribes
    \/ \E cb \in {"cb1", "cb2"} : CallSubscribe("t1", TopicA, cb)
    \/ SubscribeTest("t1") \/ SubscribeBetweenFrames("t1") \/ Return("t1")

SpecReentrant == InitReentrant /\ [][NextReentrant]_vars

\* C20 (re-entrancy): when the walk of a frame's subscribers ends, every
\* callback of the topic's list that was registered when the walk began (every
\* entry but "late") has been invoked for the frame, and the loop has not
\* died in a callback.
C20_ReentrantDispatch ==
    /\ [](fault.where # "callback")
    /\ [][(pc = "next" /\ pc' = "pop" /\ iter.live)
            => \A i \in 1..Len(iter.list) :
                  iter.list[i] # "late" => InList(CbsOf(calls), iter.list[i])]_vars

====
